---- MODULE Spec2Model ----
(***************************************************************************)
(* Model of the HrtfConv plugin (src/src/lib.rs): the steering loop that,  *)
(* once per audio block, derives a direction from the control values,      *)
(* re-fetches and hot-swaps the HRTF filter when the direction changed,    *)
(* and renders the block through the convolution engine.                   *)
(*                                                                         *)
(* f32 values in [-1, 1] are modelled as fixed-point numbers with 24       *)
(* fractional bits (the f32 significand width).  Option<T> is modelled as  *)
(* a sequence: << >> is None, <<v>> is Some(v).                            *)
(***************************************************************************)
EXTENDS Integers, Sequences, FiniteSets, TLC

\* ----------------------------------------------------------------- bounds
\* Largest block length / max_buffer_size the host uses in the model.
MaxBuf == 5

\* ------------------------------------------------------- numeric helpers
One == 2^24

Half == One \div 2

Abs(a) == IF a < 0 THEN 0 - a ELSE a

Max2(a, b) == IF a >= b THEN a ELSE b

\* Fixed-point product a*b/One rounded to nearest, computed on 12-bit halves
\* so that no intermediate exceeds the machine integer.
MulQ(a, b) ==
    LET ua == Abs(a)
        ub == Abs(b)
        ah == ua \div 4096
        al == ua % 4096
        bh == ub \div 4096
        bl == ub % 4096
        m  == ah * bl + al * bh
        r  == al * bl
        p  == ah * bh + ((m + 2048) + (r \div 4096)) \div 4096
    IN  IF (a < 0) = (b < 0) THEN p ELSE 0 - p

\* pi/180 as f32 (0.017453292), in fixed point.
PiOver180 == 292818

\* f32::to_radians
ToRadians(deg) == deg * PiOver180

\* f32::cos at the radian images of the modelled angles.  cos(pi/2 as f32)
\* is -4.371139e-8 and cos(3pi/2 as f32) is 1.1924881e-8: not exactly zero.
Cos(rad) ==
    CASE rad = ToRadians(0)   -> One
      [] rad = ToRadians(90)  -> -1
      [] rad = ToRadians(180) -> 0 - One
      [] rad = ToRadians(270) -> 0

\* f32::sin at the same angles.  sin(pi as f32) is -8.742278e-8.
Sin(rad) ==
    CASE rad = ToRadians(0)   -> 0
      [] rad = ToRadians(90)  -> One
      [] rad = ToRadians(180) -> -1
      [] rad = ToRadians(270) -> 0 - One

\* ------------------------------------------------------------ input sets
\* Control values the calls read: the default position, a turn of the
\* azimuth, the same azimuth at half the distance, and a raised elevation.
Controls ==
    { [azimuth |-> 0,  elevation |-> 0,  distance |-> One],
      [azimuth |-> 90, elevation |-> 0,  distance |-> One],
      [azimuth |-> 90, elevation |-> 0,  distance |-> Half],
      [azimuth |-> 0,  elevation |-> 90, distance |-> One] }

\* HrtfConvParams::default(): azimuth 0, elevation 0, distance 1.0
DefaultParams == [azimuth |-> 0, elevation |-> 0, distance |-> One]

\* buffer_config.max_buffer_size values the host may negotiate
BufferSizes == {MaxBuf - 1}

\* Shapes <<channels, samples>> of the buffers the host hands to process:
\* no stereo pair, no samples, a block of exactly max_buffer_size, and a
\* block one sample longer than was negotiated.
BlockShapes == {<<1, MaxBuf - 1>>, <<2, 0>>, <<2, MaxBuf - 1>>, <<2, MaxBuf>>}

\* Which fallible collaborator call fails, if the handler reaches it.  A
\* handler returns at its first failure, so at most one call fails per call.
InitFaults == {"none", "open", "build", "set_filter"}

BlockFaults == {"none", "set_filter", "process_block"}

SampleBases == {10}

\* A block's samples: distinct values base+1 .. base+n
Ramp(base, n) == [i \in 1..n |-> base + i]

Zeros(n) == [i \in 1..n |-> 0]

\* --------------------------------------------------------------- Option
None == << >>

Some(v) == <<v>>

IsSome(o) == o # << >>

Unwrap(o) == o[1]

\* ------------------------------------------------------- direction model
\* Variant of Direction: the elevation is measured from the zenith instead of
\* from the horizontal plane.
DirectionFromZenith(ctl) ==
    LET az == ToRadians(ctl.azimuth)
        el == ToRadians(ctl.elevation)
        x  == MulQ(ctl.distance, MulQ(Sin(el), Cos(az)))
        y  == MulQ(ctl.distance, MulQ(Sin(el), Sin(az)))
        z  == MulQ(ctl.distance, Cos(el))
    IN  <<x, y, z>>

\* lib.rs 149-157 and 205-213: spherical to Cartesian from the control values
Direction(ctl) ==
    LET az == ToRadians(ctl.azimuth)
        el == ToRadians(ctl.elevation)
        x  == MulQ(ctl.distance, MulQ(Cos(el), Cos(az)))
        y  == MulQ(ctl.distance, MulQ(Cos(el), Sin(az)))
        z  == MulQ(ctl.distance, Sin(el))
    IN  <<x, y, z>>

\* ---------------------------------------------------------- collaborators
\* Sofar::filter: the impulse response of the measurement nearest to the
\* direction of (x, y, z).  The lookup ignores the radius, so the filter is
\* identified by the octant cell of the direction.
Cell(v) == IF 4 * Abs(v) < One THEN 0 ELSE IF v > 0 THEN 1 ELSE 2

Lookup(dir) == 1 + 9 * Cell(dir[1]) + 3 * Cell(dir[2]) + Cell(dir[3])

\* Renderer::process_block: one output sample per input sample, a function
\* of the active impulse response, the channel and the input sample.
RenderLeft(ir, mono) == [i \in 1..Len(mono) |-> 1000 * ir + mono[i]]

RenderRight(ir, mono) == [i \in 1..Len(mono) |-> 1000 * ir + 500 + mono[i]]

\* Vec growth (RawVec::grow_amortized for 4-byte elements): no reallocation
\* while the required length fits, otherwise max(2*cap, required, 4).
GrowCap(cap, required) ==
    IF required <= cap THEN cap ELSE Max2(Max2(2 * cap, required), 4)

\* ---------------------------------------------------------------- state
VARIABLES
    params,          \* control values (azimuth, elevation, distance), as
                     \* the host's smoothing left them for the latest call
    sofa,            \* Option<Sofar>: None or Some("sofa")
    filter,          \* Option<Filter>: the loop's owned filter
    renderer,        \* Option<Renderer>: Some(active impulse response)
    scratch_buffer,  \* Vec<f32> contents
    scratch_cap,     \* Vec<f32> capacity
    last_direction,  \* (f32, f32, f32)
    panicked,        \* the plugin panicked (expect at lib.rs:172)
    call,            \* observation of the most recent host call
    hist             \* since the latest successful initialize: its
                     \* max_buffer_size, the capacity it left, and whether
                     \* a block longer than max_buffer_size was processed

vars == <<params, sofa, filter, renderer, scratch_buffer, scratch_cap,
          last_direction, panicked, call, hist>>

State == [sofa |-> sofa, filter |-> filter, renderer |-> renderer,
          scratch_buffer |-> scratch_buffer, scratch_cap |-> scratch_cap,
          last_direction |-> last_direction]

\* What the call before the observed one was, as far as the next call's
\* behaviour is specified in terms of it.
NoPrev == [kind |-> "other", failed |-> "none", same_ctl |-> FALSE]

\* c is the call before the one that reads the control values ctl: a block
\* processed by a Ready loop, a successful initialize, or anything else.
Summary(c, ctl) ==
    IF c.op = "process" /\ c.ready
    THEN [kind |-> "block", failed |-> c.failed, same_ctl |-> (c.ctl = ctl)]
    ELSE IF c.op = "initialize" /\ c.ret = "true"
    THEN [kind |-> "initialized", failed |-> "none", same_ctl |-> (c.ctl = ctl)]
    ELSE NoPrev

NoCall == [op |-> "none", ret |-> "none", ready |-> FALSE, ctl |-> DefaultParams,
           prev |-> NoPrev,
           calls |-> << >>, looked_up |-> << >>, failed |-> "none",
           buffer_in |-> << >>, buffer |-> << >>, engine_in |-> << >>,
           max_buffer_size |-> 0]

\* HrtfConv::default()
Init ==
    /\ params = DefaultParams
    /\ sofa = None
    /\ filter = None
    /\ renderer = None
    /\ scratch_buffer = << >>
    /\ scratch_cap = 0
    /\ last_direction = <<0, 0, 0>>
    /\ panicked = FALSE
    /\ call = NoCall
    /\ hist = [max_buffer_size |-> 0, init_cap |-> 0, oversize |-> FALSE]

\* ------------------------------------------------------------ initialize
\* lib.rs 179-181: scratch_buffer.clear(); scratch_buffer.resize(max, 0.0)
ResizeScratch(st, max_buffer_size) ==
    [st EXCEPT !.scratch_buffer = Zeros(max_buffer_size),
               !.scratch_cap = GrowCap(st.scratch_cap, max_buffer_size)]

\* Variant of AdoptEngine: the assignment of last_direction at lib.rs 177 is
\* missing.
AdoptEngineNoDirection(st, new_filter, dir) ==
    [st EXCEPT !.sofa = Some("sofa"),
               !.filter = Some(new_filter),
               !.renderer = Some(new_filter)]

\* lib.rs 174-177: the fields are assigned together, after every fallible step
AdoptEngine(st, new_filter, dir) ==
    [st EXCEPT !.sofa = Some("sofa"),
               !.filter = Some(new_filter),
               !.renderer = Some(new_filter),
               !.last_direction = dir]

\* Variant of FailedInitState: the old engine is dropped before the new one
\* is built.
FailedInitStateDropsEngine(st) == [st EXCEPT !.renderer = None]

\* Variant of FailedInitState: the scratch buffer is cleared at the top of
\* initialize, before the fallible steps.
FailedInitStateClearsScratch(st) == [st EXCEPT !.scratch_buffer = << >>]

\* lib.rs 141-144, 166-169 and 172: initialize leaves before lib.rs 174, the
\* first assignment to a field of self
FailedInitState(st) == st

\* lib.rs 131-187.  fault names the one of OpenOptions::open_data,
\* Renderer::build and Renderer::set_filter that fails, if any.
HrtfInitialize(st, ctl, max_buffer_size, fault) ==
    LET dir == Direction(ctl)
        open_ok == fault # "open"
        build_ok == fault # "build"
        install_ok == fault # "set_filter"
        new_filter == Lookup(dir)
        base == [state |-> FailedInitState(st), ret |-> "false",
                 calls |-> <<"open">>, looked_up |-> None, failed |-> "open"]
    IN  IF ~open_ok THEN base
        ELSE IF ~build_ok THEN
            [base EXCEPT !.calls = <<"open", "lookup", "build">>,
                         !.looked_up = Some(dir), !.failed = "build"]
        ELSE IF ~install_ok THEN
            \* render.set_filter(&filter).expect("Failed to set filter")
            [base EXCEPT !.calls = <<"open", "lookup", "build", "set_filter">>,
                         !.looked_up = Some(dir),
                         !.failed = "set_filter", !.ret = "panic"]
        ELSE
            [state  |-> ResizeScratch(AdoptEngine(st, new_filter, dir),
                                      max_buffer_size),
             ret    |-> "true",
             calls  |-> <<"open", "lookup", "build", "set_filter">>,
             looked_up |-> Some(dir),
             failed |-> "none"]

\* --------------------------------------------------------------- process
\* Variant of DirectionChanged: the filter is refetched in every block.
DirectionChangedAlways(cur, last) == TRUE

\* Variant of DirectionChanged: only the x coordinate is compared.
DirectionChangedXOnly(cur, last) == cur[1] # last[1]

\* lib.rs 215: exact comparison of the three coordinates
DirectionChanged(cur, last) == cur # last

\* Variant of SteeredDirection: last_direction is assigned before set_filter
\* is attempted, whatever its outcome.
SteeredDirectionEager(cur, last, install_ok) == cur

\* Variant of SteeredDirection: the assignment at lib.rs 224 is missing.
SteeredDirectionStale(cur, last, install_ok) == last

\* lib.rs 219-224: last_direction is assigned only after set_filter succeeded
SteeredDirection(cur, last, install_ok) == IF install_ok THEN cur ELSE last

\* lib.rs 218: sofa.filter(x, y, z, filter) writes the looked-up coefficients
\* into the loop's own filter, before set_filter is attempted
FetchedFilter(old, cur) == Some(Lookup(cur))

\* lib.rs 219: Renderer::set_filter; a rejected filter leaves the engine's
\* active impulse response as it was
InstalledFilter(active, new_filter, install_ok) ==
    IF install_ok THEN new_filter ELSE active

\* lib.rs 215-227
Steer(st, cur, install_ok) ==
    IF DirectionChanged(cur, st.last_direction) /\ IsSome(st.sofa) /\ IsSome(st.filter)
    THEN LET fetched == FetchedFilter(st.filter, cur)
         IN [state  |-> [st EXCEPT
                          !.filter = fetched,
                          !.renderer = InstalledFilter(st.renderer, fetched, install_ok),
                          !.last_direction =
                              SteeredDirection(cur, st.last_direction, install_ok)],
             calls  |-> <<"lookup", "set_filter">>,
             looked_up |-> Some(cur),
             failed |-> IF install_ok THEN "none" ELSE "set_filter"]
    ELSE [state |-> st, calls |-> << >>, looked_up |-> None, failed |-> "none"]

\* Variant of FillScratch: the copy at lib.rs 239 is missing, the engine is
\* handed what the scratch buffer held.
FillScratchStale(scratch, mono) == scratch

\* Variant of FillScratch: the clear() at lib.rs 238 is missing.
FillScratchNoClear(scratch, mono) == scratch \o mono

\* lib.rs 237-239: scratch_buffer.clear(); scratch_buffer.extend_from_slice(..)
FillScratch(scratch, mono) == mono

\* Variant of SkipsRender: only the number of samples is tested.
SkipsRenderOnlyEmpty(num_channels, num_samples) == num_samples = 0

\* lib.rs 233: blocks without a stereo pair or without samples are not rendered
SkipsRender(num_channels, num_samples) == num_channels < 2 \/ num_samples = 0

\* Variant of RenderStatus: the engine's error is logged but not returned.
RenderStatusSwallowed(process_ok) == "Normal"

\* lib.rs 245-250: the status of a block that reached the engine
RenderStatus(process_ok) == IF process_ok THEN "Normal" ELSE "Error"

\* lib.rs 241-245: the output slices are the first num_samples of channels 0
\* and 1; a failing engine has written some prefix of them
WriteOutput(buffer, left, right, written) ==
    [c \in 1..Len(buffer) |->
        [i \in 1..Len(buffer[c]) |->
            IF i > written THEN buffer[c][i]
            ELSE IF c = 1 THEN left[i]
            ELSE IF c = 2 THEN right[i]
            ELSE buffer[c][i]]]

\* Variant of UninitializedBlock: the input is copied to the scratch buffer
\* before the renderer is looked at.
UninitializedBlockCopies(st, buffer) ==
    [state |-> IF Len(buffer) = 0 THEN st
               ELSE [st EXCEPT !.scratch_buffer = buffer[1],
                               !.scratch_cap = GrowCap(@, Len(buffer[1]))],
     ret |-> "Normal", calls |-> << >>, looked_up |-> None,
     failed |-> "none", buffer |-> buffer, engine_in |-> None]

\* lib.rs 200-203: no renderer, nothing to do
UninitializedBlock(st, buffer) ==
    [state |-> st, ret |-> "Normal", calls |-> << >>, looked_up |-> None,
     failed |-> "none", buffer |-> buffer, engine_in |-> None]

\* lib.rs 229-250: the block after steering succeeded or was not needed
Render(st, buffer, process_ok, written) ==
    LET num_channels == Len(buffer)
        num_samples  == IF num_channels = 0 THEN 0 ELSE Len(buffer[1])
    IN  IF SkipsRender(num_channels, num_samples) THEN
            [state |-> st, ret |-> "Normal", calls |-> << >>, looked_up |-> None,
             failed |-> "none", buffer |-> buffer, engine_in |-> None]
        ELSE
        LET scratch == FillScratch(st.scratch_buffer, buffer[1])
            ir      == Unwrap(st.renderer)
        IN  [state  |-> [st EXCEPT
                          !.scratch_buffer = scratch,
                          !.scratch_cap = GrowCap(st.scratch_cap, Len(scratch))],
             ret    |-> RenderStatus(process_ok),
             calls  |-> <<"process_block">>,
             looked_up |-> None,
             failed |-> IF process_ok THEN "none" ELSE "process_block",
             buffer |-> WriteOutput(buffer, RenderLeft(ir, scratch),
                                    RenderRight(ir, scratch),
                                    IF process_ok THEN num_samples ELSE written),
             engine_in |-> Some([ir |-> ir, mono |-> scratch])]

\* Variant of AfterSteer: the return at lib.rs 221 is missing, so a block
\* whose set_filter failed goes on to render and reports the render's status.
AfterSteerFallsThrough(s, buffer, process_ok, written) ==
    [Render(s.state, buffer, process_ok, written)
        EXCEPT !.calls = s.calls \o @, !.looked_up = s.looked_up,
               !.failed = IF s.failed # "none" THEN s.failed ELSE @]

\* lib.rs 219-222 and 229: a failed set_filter returns before the rendering
AfterSteer(s, buffer, process_ok, written) ==
    IF s.failed # "none" THEN
        [state |-> s.state, ret |-> "Error", calls |-> s.calls,
         looked_up |-> s.looked_up, failed |-> s.failed,
         buffer |-> buffer, engine_in |-> None]
    ELSE [Render(s.state, buffer, process_ok, written)
             EXCEPT !.calls = s.calls \o @, !.looked_up = s.looked_up]

\* lib.rs 194-251.  fault names the one of Renderer::set_filter and
\* Renderer::process_block that fails if it is called; written is how many
\* output samples a failing process_block has written.  The direction is
\* computed once (lib.rs 205-213) and steering is done once (215-227); each
\* is bound as a value before the next stage uses it.
HrtfProcess(st, ctl, buffer, fault, written) ==
    IF ~IsSome(st.renderer) THEN UninitializedBlock(st, buffer)
    ELSE CHOOSE r \in
            { AfterSteer(s, buffer, fault # "process_block", written) :
                s \in { Steer(st, cur, fault # "set_filter") :
                          cur \in {Direction(ctl)} } } : TRUE

\* ---------------------------------------------------------------- actions
Install(st) ==
    /\ sofa' = st.sofa
    /\ filter' = st.filter
    /\ renderer' = st.renderer
    /\ scratch_buffer' = st.scratch_buffer
    /\ scratch_cap' = st.scratch_cap
    /\ last_direction' = st.last_direction

\* The host calls initialize (lib.rs 131); the control values it reads are
\* whatever the host's smoothing left in params.
Initialize ==
    /\ ~panicked
    /\ \E ctl \in Controls, max_buffer_size \in BufferSizes,
          fault \in InitFaults :
        \E r \in {HrtfInitialize(State, ctl, max_buffer_size, fault)} :
            /\ params' = ctl
            /\ Install(r.state)
            /\ panicked' = (r.ret = "panic")
            /\ call' = [op |-> "initialize", ret |-> r.ret,
                        ready |-> IsSome(renderer), ctl |-> ctl,
                        prev |-> Summary(call, ctl),
                        calls |-> r.calls, looked_up |-> r.looked_up,
                        failed |-> r.failed,
                        buffer_in |-> << >>, buffer |-> << >>,
                        engine_in |-> None,
                        max_buffer_size |-> max_buffer_size]
            /\ hist' = IF r.ret = "true"
                       THEN [max_buffer_size |-> max_buffer_size,
                             init_cap |-> r.state.scratch_cap,
                             oversize |-> FALSE]
                       ELSE hist

\* The buffer the host hands to process: the mono input in channel 0.
HostBuffer(shape, base) ==
    [c \in 1..shape[1] |->
        IF c = 1 THEN Ramp(base, shape[2]) ELSE Zeros(shape[2])]

\* The host calls process with one block (lib.rs 194).  A failing
\* process_block has written none or all of the block's output samples.
Process ==
    /\ ~panicked
    /\ \E ctl \in Controls, shape \in BlockShapes, base \in SampleBases,
          fault \in BlockFaults, partial \in BOOLEAN :
        /\ partial => (fault = "process_block")
        /\ \E r \in {HrtfProcess(State, ctl, HostBuffer(shape, base), fault,
                                 IF partial THEN shape[2] ELSE 0)} :
            /\ params' = ctl
            /\ Install(r.state)
            /\ call' = [op |-> "process", ret |-> r.ret,
                        ready |-> IsSome(renderer), ctl |-> ctl,
                        prev |-> Summary(call, ctl),
                        calls |-> r.calls, looked_up |-> r.looked_up,
                        failed |-> r.failed,
                        buffer_in |-> HostBuffer(shape, base),
                        buffer |-> r.buffer, engine_in |-> r.engine_in,
                        max_buffer_size |-> hist.max_buffer_size]
            /\ hist' = [hist EXCEPT !.oversize =
                          @ \/ (IsSome(renderer) /\ shape[2] > hist.max_buffer_size)]
    /\ UNCHANGED panicked

Next == Initialize \/ Process

Spec == Init /\ [][Next]_vars

\* ------------------------------------------------ the Ready loop on its own
\* The audio loop after a successful initialize: the host calls process once
\* per block for as long as the plugin is loaded (lib.rs 194), so a block is
\* always eventually processed.  Blocks are stereo and of the negotiated
\* length; set_filter and process_block may fail in any block.
LoopShapes == {<<2, MaxBuf - 1>>}

\* HrtfConv::default() followed by an initialize that returned true
LoopInit ==
    \E ctl \in Controls, max_buffer_size \in BufferSizes :
        \E r \in {HrtfInitialize([sofa |-> None, filter |-> None,
                                   renderer |-> None, scratch_buffer |-> << >>,
                                   scratch_cap |-> 0,
                                   last_direction |-> <<0, 0, 0>>],
                                  ctl, max_buffer_size, "none")} :
            /\ params = ctl
            /\ sofa = r.state.sofa
            /\ filter = r.state.filter
            /\ renderer = r.state.renderer
            /\ scratch_buffer = r.state.scratch_buffer
            /\ scratch_cap = r.state.scratch_cap
            /\ last_direction = r.state.last_direction
            /\ panicked = FALSE
            /\ call = [op |-> "initialize", ret |-> r.ret,
                       ready |-> FALSE, ctl |-> ctl,
                       prev |-> NoPrev,
                       calls |-> r.calls, looked_up |-> r.looked_up,
                       failed |-> r.failed,
                       buffer_in |-> << >>, buffer |-> << >>,
                       engine_in |-> None,
                       max_buffer_size |-> max_buffer_size]
            /\ hist = [max_buffer_size |-> max_buffer_size,
                       init_cap |-> r.state.scratch_cap,
                       oversize |-> FALSE]

\* One block of the loop (lib.rs 194)
LoopBlock ==
    /\ \E ctl \in Controls :
        /\ params' = ctl
        /\ \E shape \in LoopShapes, base \in SampleBases,
              fault \in BlockFaults, partial \in BOOLEAN :
            /\ partial => (fault = "process_block")
            /\ \E r \in {HrtfProcess(State, ctl, HostBuffer(shape, base), fault,
                                     IF partial THEN shape[2] ELSE 0)} :
                /\ Install(r.state)
                /\ call' = [op |-> "process", ret |-> r.ret,
                            ready |-> IsSome(renderer), ctl |-> ctl,
                            prev |-> Summary(call, ctl),
                            calls |-> r.calls, looked_up |-> r.looked_up,
                            failed |-> r.failed,
                            buffer_in |-> HostBuffer(shape, base),
                            buffer |-> r.buffer, engine_in |-> r.engine_in,
                            max_buffer_size |-> hist.max_buffer_size]
                /\ hist' = [hist EXCEPT !.oversize =
                              @ \/ (IsSome(renderer) /\ shape[2] > hist.max_buffer_size)]
    /\ UNCHANGED panicked

LoopNext == LoopBlock

LoopSpec == LoopInit /\ [][LoopNext]_vars /\ WF_vars(LoopBlock)

\* ------------------------------------------- the direction model on its own
\* The direction computation of lib.rs 205-213 applied once to each of a grid
\* of control values, including values outside the ranges the parameters are
\* declared with (elevation 270, distance 2.0).
Angles == {0, 90, 180, 270}

DirDistances == {One \div 4, Half, One, 2 * One}

DirInputs == [azimuth : Angles, elevation : Angles, distance : DirDistances]

DirInit ==
    /\ params \in DirInputs
    /\ sofa = None
    /\ filter = None
    /\ renderer = None
    /\ scratch_buffer = << >>
    /\ scratch_cap = 0
    /\ last_direction = <<0, 0, 0>>
    /\ panicked = FALSE
    /\ call = NoCall
    /\ hist = [max_buffer_size |-> 0, init_cap |-> 0, oversize |-> FALSE]

\* let current_direction = (x, y, z), from the control values in params
DirCompute ==
    /\ call.op = "none"
    /\ last_direction' = Direction(params)
    /\ call' = [call EXCEPT !.op = "compute", !.ctl = params]
    /\ UNCHANGED <<params, sofa, filter, renderer, scratch_buffer,
                   scratch_cap, panicked, hist>>

DirNext == DirCompute

DirSpec == DirInit /\ [][DirNext]_vars

\* ------------------------------------------------------------ properties
\* Every step of Spec is one host call, observed in call'; the unprimed
\* variables are the loop's state on entry to that call and the unprimed
\* call is the call before it.

Called(c, f) == \E i \in DOMAIN c.calls : c.calls[i] = f

Count(c, f) == Cardinality({i \in DOMAIN c.calls : c.calls[i] = f})

\* i < j for every position i of f and j of g in the calls of c
Before(c, f, g) ==
    \A i, j \in DOMAIN c.calls :
        (c.calls[i] = f /\ c.calls[j] = g) => i < j

\* The observed call is a block processed by a Ready loop.
ReadyBlock(c) == c.op = "process" /\ c.ready

\* C1: when set_filter fails in a Ready block, the block returns Error and
\* last_direction keeps its value on entry, still different from the block's
\* direction; and the next block that reads the same control values calls
\* lookup and set_filter again, for that same direction.
C1_InstallFailureRetries ==
    [][ /\ (ReadyBlock(call') /\ call'.failed = "set_filter") =>
            /\ call'.ret = "Error"
            /\ last_direction' = last_direction
            /\ last_direction' # Direction(call'.ctl)
        /\ (/\ ReadyBlock(call) /\ call.failed = "set_filter"
            /\ ReadyBlock(call') /\ call'.ctl = call.ctl) =>
            /\ Count(call', "lookup") = 1
            /\ Count(call', "set_filter") = 1
            /\ call'.looked_up = Some(Direction(call.ctl))
            /\ call'.looked_up = call.looked_up ]_vars

\* A block retried the lookup and the installation that failed in the block
\* before it, with unchanged control values, and this time succeeded.
C1_Witness ==
    /\ ReadyBlock(call)
    /\ call.prev.kind = "block" /\ call.prev.failed = "set_filter"
    /\ call.prev.same_ctl
    /\ Called(call, "lookup") /\ Called(call, "set_filter")
    /\ call.failed = "none"
    /\ last_direction = Direction(call.ctl)

\* C2: after a block in which set_filter fails, the loop's filter holds the
\* coefficients it held on entry and the engine's active impulse response is
\* the previously installed one.
C2_InstallFailureKeepsFilter ==
    [][ (ReadyBlock(call') /\ call'.failed = "set_filter") =>
            (filter' = filter /\ renderer' = renderer) ]_vars

\* C4 as stated: of two consecutive Ready blocks with identical control
\* values, the second calls neither lookup nor set_filter.
C4_IdempotenceUnconditional ==
    (ReadyBlock(call) /\ call.prev.kind = "block" /\ call.prev.same_ctl) =>
        (~Called(call, "lookup") /\ ~Called(call, "set_filter"))

\* C4, amended: of two consecutive Ready blocks with identical control
\* values, the second calls neither lookup nor set_filter, unless set_filter
\* failed in the first.
C4_Idempotence ==
    (/\ ReadyBlock(call) /\ call.prev.kind = "block" /\ call.prev.same_ctl
     /\ call.prev.failed # "set_filter") =>
        (~Called(call, "lookup") /\ ~Called(call, "set_filter"))

\* The second of two Ready blocks with identical, non-default control values
\* was rendered without steering.
C4_Witness ==
    /\ ReadyBlock(call) /\ call.prev.kind = "block" /\ call.prev.same_ctl
    /\ call.prev.failed # "set_filter"
    /\ call.calls = <<"process_block">>
    /\ call.ctl # DefaultParams

\* C5: in a Ready block whose direction differs from last_direction on entry,
\* lookup is called exactly once and set_filter exactly once, both before
\* process_block; in a block whose direction equals last_direction neither is
\* called.
C5_OneLookupBeforeRender ==
    [][ ReadyBlock(call') =>
          IF Direction(call'.ctl) # last_direction
          THEN /\ Count(call', "lookup") = 1
               /\ Count(call', "set_filter") = 1
               /\ Before(call', "lookup", "set_filter")
               /\ Before(call', "lookup", "process_block")
               /\ Before(call', "set_filter", "process_block")
               /\ call'.looked_up = Some(Direction(call'.ctl))
          ELSE ~Called(call', "lookup") /\ ~Called(call', "set_filter") ]_vars

\* A block steered to a new direction and was then rendered.
C5_Witness ==
    /\ ReadyBlock(call)
    /\ call.calls = <<"lookup", "set_filter", "process_block">>
    /\ call.ret = "Normal"

\* C6: process on a loop without a renderer returns Normal, calls no
\* collaborator, leaves the buffer as the host passed it, and changes none of
\* the loop's fields.
C6_UninitializedNoOp ==
    [][ (call'.op = "process" /\ ~IsSome(renderer)) =>
            /\ call'.ret = "Normal"
            /\ call'.calls = << >>
            /\ call'.buffer = call'.buffer_in
            /\ UNCHANGED <<sofa, filter, renderer, scratch_buffer,
                           scratch_cap, last_direction>> ]_vars

\* An uninitialized loop was handed a stereo block with samples.
C6_Witness ==
    /\ call.op = "process" /\ ~call.ready
    /\ Len(call.buffer_in) = 2 /\ Len(call.buffer_in[1]) > 0

\* C7: when process_block fails, the block returns Error, the loop keeps its
\* renderer, and filter, engine filter and last_direction are what the
\* block's steering left (unchanged if it did not steer); the next block, when
\* none of its own calls fails, returns Normal and, unless it steers itself,
\* renders with the impulse response that was active on its entry.
C7_ProcessFailureIsLocal ==
    [][ /\ (ReadyBlock(call') /\ call'.failed = "process_block") =>
            /\ call'.ret = "Error"
            /\ IsSome(renderer')
            /\ IF Called(call', "lookup")
               THEN /\ last_direction' = Direction(call'.ctl)
                    /\ filter' = Some(Lookup(Direction(call'.ctl)))
                    /\ renderer' = filter'
               ELSE UNCHANGED <<filter, renderer, last_direction>>
        /\ (/\ ReadyBlock(call) /\ call.failed = "process_block"
            /\ call'.op = "process" /\ call'.failed = "none") =>
            /\ call'.ready
            /\ call'.ret = "Normal"
            /\ (Called(call', "process_block") /\ ~Called(call', "lookup")) =>
                   call'.engine_in = Some([ir |-> Unwrap(renderer),
                                           mono |-> call'.buffer_in[1]]) ]_vars

\* The block after one whose process_block failed was rendered, without
\* steering, and returned Normal.
C7_Witness ==
    /\ ReadyBlock(call)
    /\ call.prev.kind = "block" /\ call.prev.failed = "process_block"
    /\ call.calls = <<"process_block">>
    /\ call.ret = "Normal"

\* C8: an initialize in which a step fails (open_data, build or the initial
\* set_filter) returns false and leaves the loop's readiness as it was.
C8_InitFailureReturnsFalse ==
    (call.op = "initialize" /\ call.failed # "none") =>
        (call.ret = "false" /\ IsSome(renderer) = call.ready)

\* C9: while no block longer than max_buffer_size has been processed since
\* initialize, the scratch buffer's capacity does not exceed the capacity
\* initialize left, and its length does not exceed max_buffer_size.
C9_ScratchNeverGrows ==
    (IsSome(renderer) /\ ~hist.oversize) =>
        (scratch_cap <= hist.init_cap /\ Len(scratch_buffer) <= hist.max_buffer_size)

\* A second consecutive block of exactly max_buffer_size samples was rendered.
C9_Witness ==
    /\ ReadyBlock(call) /\ call.prev.kind = "block"
    /\ Called(call, "process_block")
    /\ ~hist.oversize
    /\ Len(scratch_buffer) = hist.max_buffer_size
    /\ scratch_buffer = call.buffer_in[1]

\* C10: a Ready block returns Error exactly when set_filter or process_block
\* failed in that block; every other block returns Normal.
C10_ErrorIffOwnFailure ==
    /\ ReadyBlock(call) =>
          ((call.ret = "Error") <=> (call.failed \in {"set_filter", "process_block"}))
    /\ (call.op = "process") => (call.ret \in {"Normal", "Error"})
    /\ (call.op = "process" /\ ~call.ready) => (call.ret = "Normal")

\* A block whose own calls succeeded returned Normal right after a block that
\* returned Error.
C10_Witness ==
    /\ ReadyBlock(call)
    /\ call.prev.kind = "block" /\ call.prev.failed # "none"
    /\ call.failed = "none" /\ call.ret = "Normal"
    /\ Called(call, "lookup")
\* cos and sin of the modelled angles as real numbers
ExactCos(deg) ==
    CASE deg = 0 -> 1 [] deg = 90 -> 0 [] deg = 180 -> -1 [] deg = 270 -> 0

ExactSin(deg) ==
    CASE deg = 0 -> 0 [] deg = 90 -> 1 [] deg = 180 -> 0 [] deg = 270 -> -1

\* d*cos(el)*cos(az), d*cos(el)*sin(az), d*sin(el) in exact arithmetic
ExactDirection(ctl) ==
    << ctl.distance * ExactCos(ctl.elevation) * ExactCos(ctl.azimuth),
       ctl.distance * ExactCos(ctl.elevation) * ExactSin(ctl.azimuth),
       ctl.distance * ExactSin(ctl.elevation) >>

\* f32::EPSILON (2^-23) in fixed point
Eps == One \div 2^23

\* C11: the computed direction is within f32 epsilon, coordinate by
\* coordinate, of x = d*cos(el)*cos(az), y = d*cos(el)*sin(az), z = d*sin(el),
\* for in-range and out-of-range control values alike (nothing is clamped);
\* so (0, 0, 1.0) gives about (1, 0, 0) and (90, 0, 1.0) about (0, 1, 0).
C11_DirectionFormula ==
    (call.op = "compute") =>
        /\ \A i \in 1..3 :
              Abs(last_direction[i] - ExactDirection(call.ctl)[i]) <= Eps
        /\ (call.ctl = [azimuth |-> 0, elevation |-> 0, distance |-> One]) =>
              last_direction = <<One, 0, 0>>
        /\ (call.ctl = [azimuth |-> 90, elevation |-> 0, distance |-> One]) =>
              /\ Abs(last_direction[1]) <= Eps
              /\ last_direction[2] = One
              /\ last_direction[3] = 0

\* The direction of (90, 0, 1.0) was computed; its x is the f32 residue of
\* cos(pi/2), not zero.
C11_Witness ==
    /\ call.op = "compute"
    /\ call.ctl = [azimuth |-> 90, elevation |-> 0, distance |-> One]
    /\ last_direction = <<-1, One, 0>>

\* C12: whenever the loop has a renderer, the engine's active impulse response
\* is the filter lookup returns for last_direction; and a call changes the
\* two only together, to the filter and the direction of a set_filter that
\* succeeded in that call, and otherwise changes neither.
C12_EngineFilterMatchesDirection ==
    [][ /\ IsSome(renderer') => (renderer' = Some(Lookup(last_direction')))
        /\ IF Called(call', "set_filter") /\ call'.failed # "set_filter"
           THEN /\ renderer' = Some(Lookup(Unwrap(call'.looked_up)))
                /\ last_direction' = Unwrap(call'.looked_up)
           ELSE UNCHANGED <<renderer, last_direction>> ]_vars

\* A Ready loop that moved away from its initial direction went through a
\* failed installation and then a block that steered and failed to render.
C12_Witness ==
    /\ ReadyBlock(call)
    /\ call.prev.kind = "block" /\ call.prev.failed = "set_filter"
    /\ call.calls = <<"lookup", "set_filter", "process_block">>
    /\ call.failed = "process_block"
    /\ renderer = Some(Lookup(last_direction))
    /\ last_direction = Direction(call.ctl)

\* C13: in a block that reaches process_block, the engine's mono input is the
\* block's channel 0 as the host passed it, which is also what the scratch
\* buffer holds afterwards; when the engine succeeds, both output channels
\* are its rendering of those entry samples.
C13_EngineGetsEntrySamples ==
    Called(call, "process_block") =>
        /\ call.engine_in = Some([ir |-> Unwrap(renderer),
                                  mono |-> call.buffer_in[1]])
        /\ scratch_buffer = call.buffer_in[1]
        /\ Len(scratch_buffer) = Len(call.buffer[1])
        /\ (call.failed = "none") =>
              /\ call.buffer[1] = RenderLeft(Unwrap(renderer), call.buffer_in[1])
              /\ call.buffer[2] = RenderRight(Unwrap(renderer), call.buffer_in[1])

\* A block of MaxBuf samples was rendered into the channel it was read from,
\* right after another Ready block.
C13_Witness ==
    /\ ReadyBlock(call) /\ call.prev.kind = "block"
    /\ Called(call, "process_block") /\ call.failed = "none"
    /\ Len(call.buffer_in[1]) = MaxBuf
    /\ call.buffer[1] # call.buffer_in[1]

\* C14: a loop that has a renderer has one after every call, whatever the
\* call and its outcome.
C14_ReadyIsAbsorbing ==
    [][ IsSome(renderer) => IsSome(renderer') ]_vars

\* A Ready loop went through an initialize that failed and still has its
\* renderer.
C14_Witness ==
    /\ call.op = "initialize" /\ call.ready
    /\ call.failed # "none"
    /\ IsSome(renderer)

\* C17: an initialize that returns false leaves every field of the loop as it
\* was on entry.
C17_FailedInitChangesNothing ==
    [][ (call'.op = "initialize" /\ call'.ret = "false") =>
            UNCHANGED <<sofa, filter, renderer, scratch_buffer, scratch_cap,
                        last_direction>> ]_vars

\* A Ready loop whose scratch buffer held a block's samples went through an
\* initialize that returned false.
C17_Witness ==
    /\ call.op = "initialize" /\ call.ret = "false" /\ call.ready
    /\ IsSome(renderer) /\ IsSome(filter) /\ IsSome(sofa)
    /\ Len(scratch_buffer) > 0 /\ scratch_buffer[1] # 0

\* C15: after an initialize that returned true, last_direction is the
\* direction of the control values it read and the filter looked up for it is
\* the loop's filter and the engine's; and a first block that reads the same
\* control values calls neither lookup nor set_filter.
C15_InitializePrimesSteering ==
    /\ (call.op = "initialize" /\ call.ret = "true") =>
          /\ last_direction = Direction(call.ctl)
          /\ renderer = Some(Lookup(Direction(call.ctl)))
          /\ filter = renderer
    /\ (ReadyBlock(call) /\ call.prev.kind = "initialized" /\ call.prev.same_ctl) =>
          (~Called(call, "lookup") /\ ~Called(call, "set_filter"))

\* The first block after an initialize at a non-default position, with the
\* control values unchanged, was rendered without steering.
C15_Witness ==
    /\ ReadyBlock(call)
    /\ call.prev.kind = "initialized" /\ call.prev.same_ctl
    /\ call.ctl # DefaultParams
    /\ call.calls = <<"process_block">>
    /\ call.ret = "Normal"

\* C16: a Ready block with fewer than two channels or with no samples does
\* not call process_block and leaves the scratch buffer and the buffer as
\* they were; its steering has run all the same: if the direction differed
\* from last_direction it called lookup and set_filter, and either returned
\* Error with last_direction kept (set_filter failed) or returned Normal with
\* last_direction updated; if the direction was unchanged it called nothing
\* and returned Normal.
C16_SkippedBlockStillSteers ==
    [][ (/\ ReadyBlock(call')
         /\ (Len(call'.buffer_in) < 2 \/ Len(call'.buffer_in[1]) = 0)) =>
            /\ ~Called(call', "process_block")
            /\ UNCHANGED <<scratch_buffer, scratch_cap>>
            /\ call'.buffer = call'.buffer_in
            /\ IF Direction(call'.ctl) # last_direction
               THEN /\ call'.calls = <<"lookup", "set_filter">>
                    /\ IF call'.failed = "set_filter"
                       THEN call'.ret = "Error" /\ UNCHANGED last_direction
                       ELSE /\ call'.ret = "Normal"
                            /\ last_direction' = Direction(call'.ctl)
               ELSE /\ call'.calls = << >>
                    /\ call'.ret = "Normal"
                    /\ UNCHANGED last_direction ]_vars

\* A Ready block with a single channel steered to a new direction and
\* returned Normal without rendering.
C16_Witness ==
    /\ ReadyBlock(call)
    /\ Len(call.buffer_in) < 2
    /\ call.calls = <<"lookup", "set_filter">>
    /\ call.ret = "Normal"
    /\ last_direction = Direction(call.ctl)

\* C18: if from some block on the loop is Ready, every call reads the same
\* control values c and set_filter no longer fails, then eventually and from
\* then on last_direction is the direction of c, the engine's filter is the
\* one looked up for it, and no block calls lookup or set_filter.
C18_Convergence ==
    \A c \in Controls :
        <>[](IsSome(renderer) /\ params = c /\ call.failed # "set_filter")
            => <>[](/\ last_direction = Direction(c)
                    /\ renderer = Some(Lookup(Direction(c)))
                    /\ (call.op = "process" =>
                          (~Called(call, "lookup") /\ ~Called(call, "set_filter"))))

\* A Ready block whose set_filter succeeded right after a block with the same
\* control values whose set_filter had failed: the loop has caught up with
\* the control values.
C18_Witness ==
    /\ ReadyBlock(call)
    /\ call.prev.kind = "block" /\ call.prev.same_ctl
    /\ call.prev.failed = "set_filter"
    /\ Called(call, "set_filter") /\ call.failed = "none"
    /\ params = call.ctl
    /\ last_direction = Direction(params)
    /\ renderer = Some(Lookup(Direction(params)))
====
